---- MODULE Spec2Model ----
(***************************************************************************)
(* A model of packages/jest-jasmine2/src/index.js: the custom equality     *)
(* over iterables, the three call matchers and their diagnostics, the      *)
(* patched failure-result builder, and the run of one spec file with the   *)
(* end-of-run aggregation of the snapshot state.                           *)
(***************************************************************************)
EXTENDS Integers, Sequences, FiniteSets, TLC

VARIABLES
  \* one comparison: the two sides, the custom tester's and the host's answer
  eqA, eqB, eqResult, eqHost,
  \* one expectation on a call matcher: the target, what the matcher gave
  \* back, the pretty-printer's invocations and the message a consumer read
  actual, outcome, ppCalls, reads, shown,
  \* one expectation of a test: whether the environment has a Node global,
  \* the objects of the test, and the result the patched builder recorded
  hasNode, heap, result,
  \* one run of a spec file: where the run is, its configuration, the two
  \* objects the bootstrap sets, how the call ended and its promise, the
  \* collaborators' calls so far, the cases still to run, the resets of the
  \* module registry, the snapshot state, the calls it got, and the result
  pc, config, jasmine, env, call, log, cases, resets, snap, ops, results

eqVars == <<eqA, eqB, eqResult, eqHost>>
mVars == <<actual, outcome, ppCalls, reads, shown>>

fcVars == <<hasNode, heap, result>>

runVars ==
  <<pc, config, jasmine, env, call, log, cases, resets, snap, ops, results>>

vars == <<eqVars, mVars, fcVars, runVars>>

----------------------------------------------------------------------------
(* JavaScript values.  Every value is a record of one shape: t is the kind, *)
(* n a number (the payload of a primitive, the identity of a plain object), *)
(* c the name of the constructor, e the elements an iteration yields.       *)

MaxLen == 2

JSUndefined == [t |-> "undefined", n |-> 0, c |-> "", e |-> <<>>]
JSNull == [t |-> "null", n |-> 0, c |-> "", e |-> <<>>]
JSNum(k) == [t |-> "number", n |-> k, c |-> "Number", e |-> <<>>]
JSStr(k) == [t |-> "string", n |-> k, c |-> "String", e |-> <<>>]
JSBool(k) == [t |-> "boolean", n |-> k, c |-> "Boolean", e |-> <<>>]
\* a plain object with no Symbol.iterator; n stands for its own properties
JSObj(k) == [t |-> "object", n |-> k, c |-> "Object", e |-> <<>>]
JSArr(s) == [t |-> "array", n |-> 0, c |-> "Array", e |-> s]
\* an object with Symbol.iterator (a Set, a user-defined list, ...)
JSIter(ctor, s) == [t |-> "iterable", n |-> 0, c |-> ctor, e |-> s]

SeqsUpTo(S, k) == UNION {[1..m -> S] : m \in 0..k}

\* typeof: null, arrays and every object are "object"
TypeOf(v) ==
  IF v.t \in {"null", "array", "iterable", "object"} THEN "object" ELSE v.t

IsArray(v) == v.t = "array"

\* const hasIterator = object => !!(object != null && object[Symbol.iterator])
hasIterator(object) ==
  /\ object.t \notin {"null", "undefined"}
  /\ object.t \in {"array", "iterable", "string"}

RECURSIVE iterableEquality(_, _), equals(_, _), walk(_, _, _)
RECURSIVE walkNoTail(_, _, _)

\* the loop without the final `if (!bIterator.next().done) return false`
walkNoTail(ea, eb, i) ==
  IF i > Len(ea)
  THEN "true"
  ELSE IF i > Len(eb) \/ ~equals(ea[i], eb[i])
       THEN "false"
       ELSE walkNoTail(ea, eb, i + 1)

\* the for-of loop over a in lockstep with b's iterator; i is the position
\* of both iterators, bIterator.next().done is i > Len(eb)
walk(ea, eb, i) ==
  IF i > Len(ea)
  THEN IF i > Len(eb) THEN "true" ELSE "false"
  ELSE IF i > Len(eb) \/ ~equals(ea[i], eb[i])
       THEN "false"
       ELSE walk(ea, eb, i + 1)

iterate(ea, eb) == walk(ea, eb, 1)

iterableEquality(a, b) ==
  IF \/ TypeOf(a) # "object"
     \/ TypeOf(b) # "object"
     \/ IsArray(a)
     \/ IsArray(b)
     \/ ~hasIterator(a)
     \/ ~hasIterator(b)
  THEN "undefined"
  ELSE IF a.c # b.c
       THEN "false"
       ELSE iterate(a.e, b.e)

\* Object.prototype.toString.call(v)
ClassName(v) ==
  CASE v.t = "undefined" -> "Undefined"
    [] v.t = "null" -> "Null"
    [] v.t = "array" -> "Array"
    [] v.t = "iterable" -> IF v.c = "Set" THEN "Set" ELSE "Object"
    [] v.t = "object" -> "Object"
    [] OTHER -> v.c

\* the engine's eq once no custom tester has decided
defaultEq(a, b) ==
  IF a.t \in {"undefined", "null"} \/ b.t \in {"undefined", "null"}
  THEN a.t = b.t
  ELSE IF ClassName(a) # ClassName(b)
       THEN FALSE
       ELSE IF a.t \in {"number", "string", "boolean"}
            THEN a.n = b.n
            ELSE IF a.t = "array"
                 THEN /\ Len(a.e) = Len(b.e)
                      /\ \A i \in 1..Len(a.e) : equals(a.e[i], b.e[i])
                 ELSE a.c = b.c /\ a.n = b.n

\* matchersUtil.equals(a, b, [iterableEquality]): the custom tester decides
\* when it answers, the engine's own comparison otherwise
equals(a, b) ==
  LET r == iterableEquality(a, b)
  IN  IF r # "undefined" THEN r = "true" ELSE defaultEq(a, b)

----------------------------------------------------------------------------
(* The values two sides of a comparison are drawn from *)

Ctors == {"Set", "List"}
Elems0 == {JSNum(1), JSNum(2)}
Flat == {JSIter(c, s) : c \in Ctors, s \in SeqsUpTo(Elems0, MaxLen)}
          \cup {JSArr(s) : s \in SeqsUpTo(Elems0, MaxLen)}
Elems1 == {JSNum(1), JSIter("Set", <<>>), JSIter("Set", <<JSNum(1)>>),
           JSIter("List", <<JSNum(1)>>), JSArr(<<JSNum(1)>>)}
Nested == {JSIter(c, s) : c \in Ctors, s \in SeqsUpTo(Elems1, MaxLen)}
Prims == {JSUndefined, JSNull, JSNum(1), JSStr(1), JSBool(1), JSObj(1), JSObj(2)}
Values == Prims \cup Flat \cup Nested

EqIdle ==
  /\ eqA = JSUndefined
  /\ eqB = JSUndefined
  /\ eqResult = "none"
  /\ eqHost = "none"

EqStart ==
  /\ eqA \in Values
  /\ eqB \in Values
  /\ eqResult = "none"
  /\ eqHost = "none"

\* one call of the custom tester on the pair
CallIterableEquality ==
  /\ eqResult = "none"
  /\ eqResult' = iterableEquality(eqA, eqB)
  /\ UNCHANGED <<eqA, eqB, eqHost, mVars, fcVars, runVars>>

\* one call of the host equality, with the tester registered, on the pair
CallEquals ==
  /\ eqHost = "none"
  /\ eqHost' = IF equals(eqA, eqB) THEN "true" ELSE "false"
  /\ UNCHANGED <<eqA, eqB, eqResult, mVars, fcVars, runVars>>

EqNext == CallIterableEquality \/ CallEquals

----------------------------------------------------------------------------
(* A message is the sequence of the parts its template concatenates: a    *)
(* literal text, the pretty-printer's rendering of a value, or a number.  *)

CALL_PRINT_LIMIT == 3
LAST_CALL_PRINT_LIMIT == 1

MaxCalls == 4
MaxReads == 1

Text(str) == [k |-> "text", s |-> str, v |-> JSUndefined, n |-> 0]
\* reporter.getFormatter().prettyPrint(value)
prettyPrint(value) == [k |-> "pp", s |-> "", v |-> value, n |-> 0]
Number(cnt) == [k |-> "num", s |-> "", v |-> JSUndefined, n |-> cnt]

Max(x, y) == IF x > y THEN x ELSE y
Min(x, y) == IF x < y THEN x ELSE y

\* Array.prototype.slice(start) with one relative index
Slice(arr, start) ==
  LET len == Len(arr)
      from == IF start < 0 THEN Max(len + start, 0) ELSE Min(start, len)
  IN  SubSeq(arr, from + 1, len)

\* Array.prototype.reverse
Reverse(arr) == [i \in 1..Len(arr) |-> arr[Len(arr) + 1 - i]]

RECURSIVE Join(_, _)
\* Array.prototype.join, on parts
Join(arr, sep) ==
  IF Len(arr) = 0 THEN <<>>
  ELSE IF Len(arr) = 1 THEN <<arr[1]>>
       ELSE <<arr[1], sep>> \o Join(Tail(arr), sep)

\* the slice taken without the limit: the whole record rendered
renderedSliceAll(calls, limit) == calls

\* calls.slice(-limit): the calls the diagnostic renders, oldest first
renderedSlice(calls, limit) == Slice(calls, 0 - limit)

getActualCalls(calls, limit) ==
  LET count == Len(calls) - limit
      printed == [i \in 1..Len(renderedSlice(calls, limit)) |->
                    prettyPrint(renderedSlice(calls, limit)[i])]
  IN  <<Text("\nActual call"), Text(IF Len(calls) = 1 THEN "" ELSE "s"),
        Text(":\n")>>
      \o Join(Reverse(printed), Text(",\n"))
      \o (IF count > 0
          THEN <<Text("\nand "), Number(count), Text(" other call"),
                 Text(IF count = 1 THEN "" ELSE "s"), Text(".")>>
          ELSE <<>>)

\* the calls array once getActualCalls has run: slice and map copy, and
\* reverse works on the copy
callsAfterRender(calls, limit) == calls

----------------------------------------------------------------------------
(* Targets of a call matcher.  kind is what the value is; calls is its     *)
(* `calls` property (absent, an object without `all`, a spy's tracker);    *)
(* mock is its `mock` property; spy and mk are the two invocation records. *)

Target(kind, calls, mock) ==
  [kind |-> kind, calls |-> calls, mock |-> mock, spy |-> <<>>, mk |-> <<>>]

Targets ==
  {Target("null", "absent", "absent"), Target("undefined", "absent", "absent"),
   Target("primitive", "absent", "absent"), Target("object", "absent", "absent"),
   Target("object", "noAll", "absent"), Target("object", "spy", "absent"),
   Target("object", "absent", "mock"), Target("object", "spy", "mock")}

ArgLists ==
  {JSArr(<<>>), JSArr(<<JSIter("Set", <<JSNum(1)>>)>>),
   JSArr(<<JSIter("Set", <<JSNum(2)>>)>>)}

ExtraArgs == {JSNull, JSNum(0), JSNum(1), JSBool(0), JSStr(0), JSObj(1)}

\* ToBoolean: what `if (expected)` tests
ToBoolean(v) ==
  CASE v.t \in {"undefined", "null"} -> FALSE
    [] v.t \in {"number", "string", "boolean"} -> v.n # 0
    [] OTHER -> TRUE

\* reading a property of null or undefined throws a TypeError
isSpyLike(test) ==
  IF test.kind \in {"null", "undefined"} THEN "TypeError"
  ELSE IF test.calls = "spy" THEN "true" ELSE "false"

isMockLike(test) ==
  IF test.kind \in {"null", "undefined"} THEN "TypeError"
  ELSE IF test.mock # "absent" THEN "true" ELSE "false"

\* isSpy ? actual.calls.all().map(x => x.args) : actual.mock.calls
extractCalls(test, isSpy) ==
  IF isSpy THEN [i \in 1..Len(test.spy) |-> test.spy[i].args] ELSE test.mk

MsgNoParams ==
  "toBeCalled() does not accept parameters, use toBeCalledWith instead."
MsgToBeCalled ==
  "toBeCalled() should be used on a mock function or a jasmine spy."
MsgLastCalledWith ==
  "lastCalledWith() should be used on a mock function or a jasmine spy."
MsgToBeCalledWith ==
  "toBeCalledWith() should be used on a mock function or a jasmine spy."

NoOutcome ==
  [st |-> "none", matcher |-> "", err |-> "", pass |-> FALSE, lazy |-> FALSE,
   msg |-> <<>>, calls |-> <<>>, live |-> FALSE, viaSpy |-> FALSE,
   expected |-> JSUndefined, supplied |-> FALSE]

Threw(name, error) ==
  [NoOutcome EXCEPT !.st = "threw", !.matcher = name, !.err = error]

\* {pass, message} with message a plain string
Eager(name, pass, message, calls, isSpy) ==
  [NoOutcome EXCEPT !.st = "returned", !.matcher = name, !.pass = pass,
     !.msg = message, !.calls = calls, !.live = ~isSpy, !.viaSpy = isSpy]

\* {pass, get message() {...}}: the getter closes over calls and expected
Lazy(name, pass, calls, isSpy, expected) ==
  [NoOutcome EXCEPT !.st = "returned", !.matcher = name, !.pass = pass,
     !.lazy = TRUE, !.calls = calls, !.live = ~isSpy, !.viaSpy = isSpy,
     !.expected = expected]

toBeCalledPass(calls) == Len(calls) # 0

toBeCalled(test, expected) ==
  IF ToBoolean(expected)
  THEN Threw("toBeCalled", MsgNoParams)
  ELSE LET isSpy == isSpyLike(test)
       IN  IF isSpy = "TypeError"
           THEN Threw("toBeCalled", "TypeError")
           ELSE IF isSpy # "true" /\ isMockLike(test) # "true"
                THEN Threw("toBeCalled", MsgToBeCalled)
                ELSE LET calls == extractCalls(test, isSpy = "true")
                         pass == toBeCalledPass(calls)
                         message == IF pass
                                    THEN <<Text("Expected not to be called")>>
                                    ELSE <<Text("Expected to be called at least once")>>
                     IN  Eager("toBeCalled", pass, message, calls, isSpy = "true")

\* calls[calls.length - 1]: undefined when the record is empty
LastCall(calls) == IF Len(calls) = 0 THEN JSUndefined ELSE calls[Len(calls)]

\* the last-call test widened to any call of the record
lastCalledWithPassAny(calls, expected) ==
  \E i \in 1..Len(calls) : equals(calls[i], expected)

\* util.equals(calls[calls.length - 1], expected)
lastCalledWithPass(calls, expected) == equals(LastCall(calls), expected)

lastCalledWithMessage(pass, expected, calls) ==
  IF ~pass
  THEN <<Text("Wasn't last called with the expected values.\n"),
         Text("Expected call:\n"), prettyPrint(expected)>>
       \o getActualCalls(calls, LAST_CALL_PRINT_LIMIT)
  ELSE <<Text("Shouldn't have been last called with\n"), prettyPrint(expected)>>

\* the result built with the message rendered at once
lastCalledWithResultEager(pass, calls, isSpy, expected) ==
  [Lazy("lastCalledWith", pass, calls, isSpy, expected)
     EXCEPT !.lazy = FALSE,
            !.msg = lastCalledWithMessage(pass, expected, calls)]

lastCalledWithResult(pass, calls, isSpy, expected) ==
  Lazy("lastCalledWith", pass, calls, isSpy, expected)

lastCalledWith(test, expected) ==
  LET isSpy == isSpyLike(test)
  IN  IF isSpy = "TypeError"
      THEN Threw("lastCalledWith", "TypeError")
      ELSE IF isSpy # "true" /\ isMockLike(test) # "true"
           THEN Threw("lastCalledWith", MsgLastCalledWith)
           ELSE LET calls == extractCalls(test, isSpy = "true")
                    pass == lastCalledWithPass(calls, expected)
                IN  lastCalledWithResult(pass, calls, isSpy = "true", expected)

\* the any-call test narrowed to the most recent call
toBeCalledWithPassLast(calls, expected) == equals(LastCall(calls), expected)

\* calls.some(call => util.equals(call, expected))
toBeCalledWithPass(calls, expected) ==
  \E i \in 1..Len(calls) : equals(calls[i], expected)

toBeCalledWithMessage(pass, expected, calls) ==
  IF ~pass
  THEN <<Text("Was not called with the expected values.\n"),
         Text("Expected call:\n"), prettyPrint(expected)>>
       \o getActualCalls(calls, CALL_PRINT_LIMIT)
  ELSE <<Text("Shouldn't have been called with\n"), prettyPrint(expected)>>

toBeCalledWith(test, expected) ==
  LET isSpy == isSpyLike(test)
  IN  IF isSpy = "TypeError"
      THEN Threw("toBeCalledWith", "TypeError")
      ELSE IF isMockLike(test) # "true" /\ isSpy # "true"
           THEN Threw("toBeCalledWith", MsgToBeCalledWith)
           ELSE LET calls == extractCalls(test, isSpy = "true")
                    pass == toBeCalledWithPass(calls, expected)
                IN  Lazy("toBeCalledWith", pass, calls, isSpy = "true", expected)

\* the number of prettyPrint invocations that rendering a message takes
PPCount(message) == Cardinality({i \in 1..Len(message) : message[i].k = "pp"})

NotShown == [msg |-> <<>>, calls |-> <<>>]

MIdle ==
  /\ actual = Target("undefined", "absent", "absent")
  /\ outcome = NoOutcome
  /\ ppCalls = 0
  /\ reads = 0
  /\ shown = NotShown

MStart ==
  /\ actual \in Targets
  /\ outcome = NoOutcome
  /\ ppCalls = 0
  /\ reads = 0
  /\ shown = NotShown

\* the code under test invokes a spy: the tracker records the call
RecordSpyCall ==
  /\ actual.calls = "spy"
  /\ Len(actual.spy) + Len(actual.mk) < MaxCalls
  /\ \E args \in ArgLists :
       actual' = [actual EXCEPT !.spy = Append(@, [args |-> args])]
  /\ UNCHANGED <<outcome, ppCalls, reads, shown, eqVars, fcVars, runVars>>

\* the code under test invokes a mock function: mock.calls grows
RecordMockCall ==
  /\ actual.mock = "mock"
  /\ Len(actual.spy) + Len(actual.mk) < MaxCalls
  /\ \E args \in ArgLists :
       actual' = [actual EXCEPT !.mk = Append(@, args)]
  /\ UNCHANGED <<outcome, ppCalls, reads, shown, eqVars, fcVars, runVars>>

\* the expectation's matcher runs, once: whatever message it rendered went
\* through the printer
Evaluated(returned) ==
  /\ outcome.st = "none"
  /\ outcome' = returned
  /\ ppCalls' = PPCount(returned.msg)
  /\ reads' = 0
  /\ shown' = NotShown
  /\ UNCHANGED <<actual, eqVars, fcVars, runVars>>

\* expect(actual).toBeCalled() and expect(actual).toBeCalled(extra)
ExpectToBeCalled ==
  \/ Evaluated(toBeCalled(actual, JSUndefined))
  \/ \E extra \in ExtraArgs :
       Evaluated([toBeCalled(actual, extra) EXCEPT !.supplied = TRUE,
                                                   !.expected = extra])

\* expect(actual).lastCalledWith(...expected)
ExpectLastCalledWith ==
  \E expected \in ArgLists : Evaluated(lastCalledWith(actual, expected))

\* expect(actual).toBeCalledWith(...expected)
ExpectToBeCalledWith ==
  \E expected \in ArgLists : Evaluated(toBeCalledWith(actual, expected))

\* the array a getter closed over: the mock's own array, or the spy's copy
ClosedOverCalls == IF outcome.live THEN actual.mk ELSE outcome.calls

\* what reading result.message gives
MessageRead ==
  IF ~outcome.lazy THEN outcome.msg
  ELSE IF outcome.matcher = "lastCalledWith"
       THEN lastCalledWithMessage(outcome.pass, outcome.expected, ClosedOverCalls)
       ELSE toBeCalledWithMessage(outcome.pass, outcome.expected, ClosedOverCalls)

PrintLimit ==
  IF outcome.matcher = "lastCalledWith" THEN LAST_CALL_PRINT_LIMIT
  ELSE CALL_PRINT_LIMIT

\* a consumer reads the message of the returned result
ReadMessage ==
  /\ outcome.st = "returned"
  /\ reads < MaxReads
  /\ reads' = reads + 1
  /\ shown' = [msg |-> MessageRead, calls |-> ClosedOverCalls]
  /\ ppCalls' = ppCalls + (IF outcome.lazy THEN PPCount(MessageRead) ELSE 0)
  /\ actual' = IF outcome.lazy /\ ~outcome.pass /\ outcome.live
               THEN [actual EXCEPT !.mk = callsAfterRender(@, PrintLimit)]
               ELSE actual
  /\ outcome' = IF outcome.lazy /\ ~outcome.pass /\ ~outcome.live
                THEN [outcome EXCEPT !.calls = callsAfterRender(@, PrintLimit)]
                ELSE outcome
  /\ UNCHANGED <<eqVars, fcVars, runVars>>

MNext ==
  \/ RecordSpyCall
  \/ RecordMockCall
  \/ ExpectToBeCalled
  \/ ExpectLastCalledWith
  \/ ExpectToBeCalledWith
  \/ ReadMessage


----------------------------------------------------------------------------
(* Properties of the call matchers *)

Trackable(test) ==
  test.kind \notin {"null", "undefined"}
    /\ (test.calls = "spy" \/ test.mock = "mock")

\* the target's invocation record, the spy's when it has both
Recorded ==
  IF actual.calls = "spy"
  THEN [i \in 1..Len(actual.spy) |-> actual.spy[i].args]
  ELSE actual.mk

\* records only grow: the record as it was when the matcher ran
RecordedAtEvaluation == SubSeq(Recorded, 1, Len(outcome.calls))

IsPrefix(s, t) == Len(s) <= Len(t) /\ SubSeq(t, 1, Len(s)) = s

\* the values a message hands to the pretty-printer, in the order printed
RECURSIVE PPValues(_)
PPValues(message) ==
  IF Len(message) = 0 THEN <<>>
  ELSE (IF message[1].k = "pp" THEN <<message[1].v>> ELSE <<>>)
         \o PPValues(Tail(message))

\* a failure message prints the expected list first, then the calls
RenderedCalls(message) == Tail(PPValues(message))

\* the numbers of the trailing "and k other call(s)." line
Trailers(message) == {message[i].n : i \in {j \in 1..Len(message) : message[j].k = "num"}}

FailureShown == shown.msg # <<>> /\ outcome.lazy /\ ~outcome.pass

\* C1: toBeCalledWith on a trackable target returns an outcome, and it
\* passes exactly when some recorded call, at whatever position, deep-equals
\* the expected argument list; with an empty record it fails.
C1_ToBeCalledWithPassesIffSomeCall ==
  outcome.matcher = "toBeCalledWith" /\ Trackable(actual) =>
    /\ outcome.st = "returned"
    /\ outcome.calls = RecordedAtEvaluation
    /\ outcome.pass <=>
         \E i \in 1..Len(RecordedAtEvaluation) :
           equals(RecordedAtEvaluation[i], outcome.expected)
    /\ Len(RecordedAtEvaluation) = 0 => ~outcome.pass

\* toBeCalledWith passed on a call that is not the most recent one
C1_Witness ==
  /\ outcome.matcher = "toBeCalledWith"
  /\ outcome.pass
  /\ Len(outcome.calls) >= 2
  /\ ~equals(outcome.calls[Len(outcome.calls)], outcome.expected)

LastCalledWithPassRule ==
  outcome.matcher = "lastCalledWith" /\ Trackable(actual) =>
    /\ outcome.st = "returned"
    /\ outcome.calls = RecordedAtEvaluation
    /\ outcome.pass <=>
         /\ Len(RecordedAtEvaluation) > 0
         /\ equals(RecordedAtEvaluation[Len(RecordedAtEvaluation)],
                   outcome.expected)

\* C2 (as amended): lastCalledWith passes exactly when the record is
\* non-empty and its most recent call deep-equals the expected list, and on
\* failure the diagnostic renders the most recent call alone when the record
\* holds a call, and no call when the record is empty.
C2_LastCalledWithMostRecentOnly ==
  /\ LastCalledWithPassRule
  /\ outcome.matcher = "lastCalledWith" /\ FailureShown =>
       RenderedCalls(shown.msg) =
         IF Len(shown.calls) = 0 THEN <<>>
         ELSE <<shown.calls[Len(shown.calls)]>>

\* lastCalledWith failed although an earlier call equals the expected list,
\* and its diagnostic was read
C2_Witness ==
  /\ outcome.matcher = "lastCalledWith"
  /\ FailureShown
  /\ Len(outcome.calls) >= 2
  /\ equals(outcome.calls[1], outcome.expected)

\* C2 as stated: on every failure the diagnostic renders exactly one call,
\* the most recent one
C2_Original ==
  /\ LastCalledWithPassRule
  /\ outcome.matcher = "lastCalledWith" /\ FailureShown =>
       /\ Len(RenderedCalls(shown.msg)) = 1
       /\ Len(shown.calls) > 0
       /\ RenderedCalls(shown.msg) = <<shown.calls[Len(shown.calls)]>>

\* C4 as stated: toBeCalled with any extra argument, falsy ones included,
\* throws the usage error; with none it passes exactly when the record is
\* non-empty.  (Targets whose properties cannot be read are C5's subject.)
C4_Original ==
  outcome.matcher = "toBeCalled" /\ actual.kind \notin {"null", "undefined"} =>
    /\ outcome.supplied => outcome.st = "threw" /\ outcome.err = MsgNoParams
    /\ ~outcome.supplied /\ Trackable(actual) =>
         /\ outcome.st = "returned"
         /\ outcome.pass <=> Len(RecordedAtEvaluation) # 0

UsageMessages(name) ==
  CASE name = "toBeCalled" -> {MsgNoParams, MsgToBeCalled}
    [] name = "lastCalledWith" -> {MsgLastCalledWith}
    [] name = "toBeCalledWith" -> {MsgToBeCalledWith}
    [] OTHER -> {}

\* C5 as stated: on a target that is neither spy-like nor mock-like, null
\* and undefined included, each matcher throws its usage error and returns
\* no outcome; on a target that is both, the spy's record is the one used.
C5_Original ==
  /\ outcome.st # "none" /\ ~Trackable(actual) =>
       outcome.st = "threw" /\ outcome.err \in UsageMessages(outcome.matcher)
  /\ outcome.st = "returned" /\ actual.calls = "spy" /\ actual.mock = "mock" =>
       IsPrefix(outcome.calls, [i \in 1..Len(actual.spy) |-> actual.spy[i].args])

\* C6: a failure diagnostic renders min(n, L) calls, the most recent ones,
\* newest first; the trailing count appears exactly when n > L and is n - L;
\* rendered calls and count account for all n calls; and rendering leaves
\* the record as it was.
C6_RendersRecentCallsNewestFirst ==
  FailureShown =>
    LET n == Len(shown.calls)
        r == RenderedCalls(shown.msg)
        t == Trailers(shown.msg)
    IN  /\ Len(r) = Min(n, PrintLimit)
        /\ \A i \in 1..Len(r) : r[i] = shown.calls[n + 1 - i]
        /\ (n > PrintLimit) <=> (t # {})
        /\ t \subseteq {n - PrintLimit}
        /\ Len(r) + (IF t = {} THEN 0 ELSE n - PrintLimit) = n
        /\ IF outcome.live THEN IsPrefix(shown.calls, actual.mk)
           ELSE outcome.calls = shown.calls

\* a diagnostic of toBeCalledWith over more calls than its limit, of two
\* different argument lists
C6_Witness ==
  /\ FailureShown
  /\ outcome.matcher = "toBeCalledWith"
  /\ Len(shown.calls) > CALL_PRINT_LIMIT
  /\ shown.calls[Len(shown.calls)] # shown.calls[Len(shown.calls) - 1]

\* C7 (as amended): lastCalledWith and toBeCalledWith return the message as
\* an accessor, which nothing computes and which invokes no pretty-printer
\* until a consumer reads it; toBeCalled returns one of two fixed strings,
\* computed when the matcher runs, and never invokes the pretty-printer.
C7_MessagesOfWithMatchersAreLazy ==
  /\ outcome.st = "returned" /\ outcome.matcher \in {"lastCalledWith", "toBeCalledWith"} =>
       /\ outcome.lazy
       /\ outcome.msg = <<>>
       /\ reads = 0 => ppCalls = 0 /\ shown.msg = <<>>
       /\ reads > 0 => ppCalls >= 1 /\ shown.msg # <<>>
  /\ outcome.st = "returned" /\ outcome.matcher = "toBeCalled" =>
       /\ ~outcome.lazy
       /\ outcome.msg \in {<<Text("Expected not to be called")>>,
                           <<Text("Expected to be called at least once")>>}
       /\ ppCalls = 0

\* a failed lastCalledWith whose message a consumer has read: the printer
\* ran for the expected list and for the call
C7_Witness ==
  /\ outcome.matcher = "lastCalledWith"
  /\ ~outcome.pass
  /\ reads = 1
  /\ ppCalls = 2

\* C7 as stated: all three matchers return the message as an accessor
C7_Original ==
  outcome.st = "returned" =>
    /\ outcome.lazy
    /\ reads = 0 => ppCalls = 0 /\ outcome.msg = <<>>

----------------------------------------------------------------------------
(* Properties of the custom equality *)

\* the tester does not apply to v: not of object type, null, an array, or
\* without the iteration protocol
NotApplicable(v) ==
  \/ v.t \in {"undefined", "number", "string", "boolean"}
  \/ v.t = "null"
  \/ v.t = "array"
  \/ v.t = "object"

StrictPrefix(s, t) == Len(s) < Len(t) /\ SubSeq(t, 1, Len(s)) = s

\* C3: iterableEquality answers undefined when either side is not of object
\* type, is null, is an array or cannot be iterated; otherwise false when
\* the constructors differ, and otherwise true exactly when the sequences
\* have one length and every lockstep pair is equal under the host
\* equality; a strict prefix never equals the longer sequence, either way.
C3_IterableEqualityThreeValued ==
  eqResult # "none" =>
    /\ eqResult \in {"undefined", "true", "false"}
    /\ (eqResult = "undefined") <=> (NotApplicable(eqA) \/ NotApplicable(eqB))
    /\ eqResult # "undefined" /\ eqA.c # eqB.c => eqResult = "false"
    /\ eqResult # "undefined" /\ eqA.c = eqB.c =>
         ((eqResult = "true") <=>
            /\ Len(eqA.e) = Len(eqB.e)
            /\ \A i \in 1..Len(eqA.e) : equals(eqA.e[i], eqB.e[i]))
    /\ eqResult # "undefined"
         /\ (StrictPrefix(eqA.e, eqB.e) \/ StrictPrefix(eqB.e, eqA.e))
         => eqResult = "false"

\* two iterables of one constructor, the first a non-empty strict prefix of
\* the second, were compared
C3_Witness ==
  /\ eqResult = "false"
  /\ eqA.t = "iterable" /\ eqB.t = "iterable"
  /\ eqA.c = eqB.c
  /\ Len(eqA.e) >= 1
  /\ StrictPrefix(eqA.e, eqB.e)

----------------------------------------------------------------------------
(* The patched buildExpectationResult.  The heap holds the objects of the  *)
(* test: outer, an object whose property x may refer to inner; inner, an  *)
(* object; host, an instance of the host's Node when the environment has  *)
(* one.  The other cells are free, for the copies.                        *)

Prim(k) == [t |-> "prim", n |-> k, o |-> ""]
Ref(cell) == [t |-> "ref", n |-> 0, o |-> cell]
Null == [t |-> "null", n |-> 0, o |-> ""]
Undef == [t |-> "undefined", n |-> 0, o |-> ""]

TestCells == {"outer", "inner", "host"}
CopyCells == <<"copy1", "copy2">>
Cells == TestCells \cup {CopyCells[i] : i \in 1..Len(CopyCells)}

Cell(kind, nodeType, x) == [kind |-> kind, nodeType |-> nodeType, x |-> x]
FreeCell == Cell("free", 0, Undef)

\* environment.global.Node && object instanceof environment.global.Node
InstanceOfNode(cell) == hasNode /\ cell.kind = "node"

FirstFreeCell(h) ==
  CopyCells[CHOOSE i \in 1..Len(CopyCells) :
              /\ h[CopyCells[i]].kind = "free"
              /\ \A j \in 1..(i - 1) : h[CopyCells[j]].kind # "free"]

\* jasmine.util.clone: an array is sliced, of any other object the own
\* properties are copied into a new object; the values are shared
clone(object, h) ==
  LET o == FirstFreeCell(h)
      kind == IF h[object.o].kind = "array" THEN "array" ELSE "plain"
  IN  [val |-> Ref(o),
       heap |-> [h EXCEPT ![o] = Cell(kind, 0, h[object.o].x)]]

\* the copy left out: the value itself is recorded
shallowCopyNone(object, h) == [val |-> object, heap |-> h]

shallowCopy(object, h) ==
  IF \/ object.t # "ref"
     \/ (InstanceOfNode(h[object.o]) /\ h[object.o].nodeType > 0)
  THEN [val |-> object, heap |-> h]
  ELSE clone(object, h)

\* what a value shows when printed: its own properties, followed through
RECURSIVE DeepView(_, _)
DeepView(v, h) ==
  IF v.t = "ref"
  THEN [t |-> "object", n |-> 0, x |-> <<DeepView(h[v.o].x, h)>>]
  ELSE [t |-> v.t, n |-> v.n, x |-> <<>>]

\* its own properties, each one the value or the reference it holds
ShallowView(v, h) ==
  IF v.t = "ref"
  THEN [t |-> "object", n |-> 0, x |-> <<h[v.o].x>>]
  ELSE [t |-> v.t, n |-> v.n, x |-> <<>>]

NoResult ==
  [st |-> "none", passed |-> FALSE, expected |-> Undef, actual |-> Undef,
   givenExpected |-> Undef, givenActual |-> Undef,
   deepThen |-> <<>>, shallowThen |-> <<>>]

\* jasmine.buildExpectationResult(options) as patched: on a failure expected
\* and actual are replaced by their copies, then the engine's builder gets
\* the options
buildExpectationResult(passed, expected, act, h) ==
  IF ~passed
  THEN LET e == shallowCopy(expected, h)
           a == shallowCopy(act, e.heap)
       IN  [heap |-> a.heap,
            result |-> [st |-> "built", passed |-> passed,
                        expected |-> e.val, actual |-> a.val,
                        givenExpected |-> expected, givenActual |-> act,
                        deepThen |-> <<DeepView(expected, h), DeepView(act, h)>>,
                        shallowThen |-> <<ShallowView(expected, h),
                                          ShallowView(act, h)>>]]
  ELSE [heap |-> h,
        result |-> [st |-> "built", passed |-> passed,
                    expected |-> expected, actual |-> act,
                    givenExpected |-> expected, givenActual |-> act,
                    deepThen |-> <<DeepView(expected, h), DeepView(act, h)>>,
                    shallowThen |-> <<ShallowView(expected, h),
                                      ShallowView(act, h)>>]]

\* the values an expectation compares
Operands == {Prim(1), Null, Undef, Ref("outer"), Ref("inner"), Ref("host")}

\* the values the test assigns to a property
Assignable(cell) ==
  IF cell = "outer" THEN {Prim(1), Prim(2), Ref("inner")}
  ELSE {Prim(1), Prim(2)}

FcIdle ==
  /\ hasNode = FALSE
  /\ heap = [cell \in Cells |-> FreeCell]
  /\ result = NoResult

FcStart ==
  /\ hasNode \in BOOLEAN
  /\ \E kind \in {"plain", "array"}, nodeType \in {0, 1} :
       heap = [cell \in Cells |->
                 CASE cell = "outer" -> Cell(kind, 0, Ref("inner"))
                   [] cell = "inner" -> Cell("plain", 0, Prim(1))
                   [] cell = "host" ->
                        IF hasNode THEN Cell("node", nodeType, Prim(1))
                        ELSE Cell("plain", 0, Prim(1))
                   [] OTHER -> FreeCell]
  /\ result = NoResult

\* an expectation of the test is evaluated and its result built
BuildResult ==
  /\ result.st = "none"
  /\ \E passed \in BOOLEAN, expected \in Operands, act \in Operands :
       LET built == buildExpectationResult(passed, expected, act, heap)
       IN  /\ heap' = built.heap
           /\ result' = built.result
  /\ UNCHANGED <<hasNode, eqVars, mVars, runVars>>

\* the code under test assigns to a property of one of its objects
Mutate ==
  /\ \E cell \in TestCells : \E v \in Assignable(cell) :
       /\ heap[cell].x # v
       /\ heap' = [heap EXCEPT ![cell].x = v]
  /\ UNCHANGED <<hasNode, result, eqVars, mVars, runVars>>

FcNext == BuildResult \/ Mutate

----------------------------------------------------------------------------
(* Properties of the failure capture *)

\* a value the patch copies: an object that is not a host node
Copied(v, h) ==
  v.t = "ref" /\ ~(InstanceOfNode(h[v.o]) /\ h[v.o].nodeType > 0)

\* C8 (as amended): on a failure an object that is not a host node is
\* recorded as a new object holding the own properties the original had at
\* the failure, which no later assignment to the original's properties
\* changes; the values of those properties are shared with the original,
\* not copied.  A primitive, null or a host node is recorded as it is, and
\* a passing result's expected and actual are forwarded as given.
C8_FailureRecordsShallowCopy ==
  result.st = "built" =>
    /\ ~result.passed /\ Copied(result.givenExpected, heap) =>
         /\ result.expected.t = "ref"
         /\ result.expected # result.givenExpected
         /\ ShallowView(result.expected, heap) = result.shallowThen[1]
    /\ ~result.passed /\ Copied(result.givenActual, heap) =>
         /\ result.actual.t = "ref"
         /\ result.actual # result.givenActual
         /\ result.actual # result.expected
         /\ ShallowView(result.actual, heap) = result.shallowThen[2]
    /\ ~result.passed /\ ~Copied(result.givenExpected, heap) =>
         result.expected = result.givenExpected
    /\ ~result.passed /\ ~Copied(result.givenActual, heap) =>
         result.actual = result.givenActual
    /\ result.passed =>
         /\ result.expected = result.givenExpected
         /\ result.actual = result.givenActual

\* a failure recorded the outer object, and the test then assigned to its
\* property
C8_Witness ==
  /\ result.st = "built"
  /\ ~result.passed
  /\ result.givenExpected = Ref("outer")
  /\ ShallowView(Ref("outer"), heap) # result.shallowThen[1]

\* C8 as stated: whatever the test changes after the failure, the recorded
\* diagnostic shows the value as it was at the failure
C8_Original ==
  result.st = "built" /\ ~result.passed =>
    /\ Copied(result.givenExpected, heap) =>
         DeepView(result.expected, heap) = result.deepThen[1]
    /\ Copied(result.givenActual, heap) =>
         DeepView(result.actual, heap) = result.deepThen[2]

----------------------------------------------------------------------------
(* One run of jasmine2(config, environment, runtime, testPath).  The       *)
(* environment, the engine, the module loader, the reporter and the        *)
(* snapshot state are collaborators: a call of one of them may throw, and  *)
(* runWithRealTimers may run its callback or not and may let the           *)
(* callback's exception out or keep it.                                    *)

MaxCases == 2
MaxKeys == 2

Configs ==
  [updateSnapshot : BOOLEAN, persistModuleRegistryBetweenSpecs : BOOLEAN,
   setupTestFrameworkScriptFile : BOOLEAN]

NoResults ==
  [made |-> FALSE, hasUncheckedKeys |-> FALSE,
   snapshot |-> [fileDeleted |-> FALSE, added |-> 0, matched |-> 0,
                 unmatched |-> 0, updated |-> 0]]

\* the snapshot state of the run: the keys no expectation has checked, the
\* keys removeUncheckedKeys has removed, and the four counters
NewSnapshot(keys) ==
  [unchecked |-> keys, removed |-> 0, added |-> 0, matched |-> 0,
   unmatched |-> 0, updated |-> 0]

Op(name, arg, ret) == [op |-> name, arg |-> arg, ret |-> ret]

RunIdle ==
  /\ pc = "Idle"
  /\ config = [updateSnapshot |-> FALSE,
               persistModuleRegistryBetweenSpecs |-> FALSE,
               setupTestFrameworkScriptFile |-> FALSE]
  /\ jasmine = FALSE
  /\ env = FALSE
  /\ call = [st |-> "running", error |-> "", promise |-> "none"]
  /\ log = <<>>
  /\ cases = 0
  /\ resets = 0
  /\ snap = NewSnapshot(0)
  /\ ops = <<>>
  /\ results = NoResults

RunStart ==
  /\ pc = "Uninitialized"
  /\ config \in Configs
  /\ jasmine = FALSE
  /\ env = FALSE
  /\ call = [st |-> "running", error |-> "", promise |-> "none"]
  /\ log = <<>>
  /\ cases = 0
  /\ resets = 0
  /\ snap \in {NewSnapshot(k) : k \in 0..MaxKeys}
  /\ ops = <<>>
  /\ results = NoResults

\* an exception leaves jasmine2: the call ends, no promise was returned
Throw(error) ==
  /\ pc' = "Thrown"
  /\ call' = [st |-> "threw", error |-> error, promise |-> "none"]

\* environment.fakeTimers.runWithRealTimers(() => {...}): the callback sets
\* jasmine, then env, then loads the setup file when one is configured
Bootstrap ==
  /\ pc = "Uninitialized"
  /\ \E ran \in {"not invoked", "threw before core", "threw before getEnv",
                 "threw after getEnv", "completed"} :
     \E keeps \in BOOLEAN :
       LET setup == ran = "completed" /\ config.setupTestFrameworkScriptFile
           threw == ran \in {"threw before core", "threw before getEnv",
                             "threw after getEnv"}
       IN  /\ jasmine' = (ran \in {"threw before getEnv", "threw after getEnv",
                                   "completed"})
           /\ env' = (ran \in {"threw after getEnv", "completed"})
           /\ log' = IF setup THEN Append(log, "requireModule(setup)") ELSE log
           /\ IF threw /\ ~keeps
              THEN Throw("collaborator")
              ELSE pc' = "Ran" /\ call' = call
  /\ UNCHANGED <<config, cases, resets, snap, ops, results>>
  /\ UNCHANGED <<eqVars, mVars, fcVars>>

\* the check with `&&` for `||`: one missing object is let through
NotInitializedBoth(j, e) == ~j /\ ~e

\* !jasmine || !env
NotInitialized(j, e) == ~j \/ ~e

\* if (!jasmine || !env) throw new Error('jasmine2 could not be initialized by Jest')
CheckInitialized ==
  /\ pc = "Ran"
  /\ IF NotInitialized(jasmine, env)
     THEN Throw("jasmine2 could not be initialized by Jest")
     ELSE pc' = "Bootstrapped" /\ call' = call
  /\ UNCHANGED <<config, jasmine, env, log, cases, resets, snap, ops, results>>
  /\ UNCHANGED <<eqVars, mVars, fcVars>>

\* runtime.setMock, env.beforeEach, snapshot.getSnapshotState,
\* env.addReporter, runtime.requireInternalModule
Register ==
  /\ pc = "Bootstrapped"
  /\ \/ /\ ~env
        /\ Throw("TypeError")
        /\ log' = log
     \/ /\ env
        /\ \E throws \in BOOLEAN :
             IF throws
             THEN Throw("collaborator") /\ log' = log
             ELSE /\ pc' = "Registered"
                  /\ call' = call
                  /\ log' = log \o <<"beforeEach", "getSnapshotState",
                                     "addReporter">>
  /\ UNCHANGED <<config, jasmine, env, cases, resets, snap, ops, results>>
  /\ UNCHANGED <<eqVars, mVars, fcVars>>

\* runtime.requireModule(testPath): the spec file declares its cases
LoadSpec ==
  /\ pc = "Registered"
  /\ \E throws \in BOOLEAN :
       IF throws
       THEN Throw("collaborator") /\ log' = log /\ cases' = cases
       ELSE /\ pc' = "SpecLoaded"
            /\ call' = call
            /\ log' = Append(log, "requireModule(testPath)")
            /\ cases' \in 0..MaxCases
  /\ UNCHANGED <<config, jasmine, env, resets, snap, ops, results>>
  /\ UNCHANGED <<eqVars, mVars, fcVars>>

\* env.execute(); return reporter.getResults().then(...)
Execute ==
  /\ pc = "SpecLoaded"
  /\ \E throws \in BOOLEAN :
       IF throws
       THEN Throw("collaborator") /\ log' = log
       ELSE /\ pc' = "Executed"
            /\ call' = [st |-> "returned", error |-> "", promise |-> "pending"]
            /\ log' = log \o <<"execute", "getResults">>
  /\ UNCHANGED <<config, jasmine, env, cases, resets, snap, ops, results>>
  /\ UNCHANGED <<eqVars, mVars, fcVars>>

\* the engine runs one case: the beforeEach hook registers the tester and
\* the matchers and resets the module registry unless the configuration
\* keeps it; the case may check a snapshot
RunCase ==
  /\ pc = "Executed"
  /\ cases > 0
  /\ cases' = cases - 1
  /\ resets' = IF ~config.persistModuleRegistryBetweenSpecs
               THEN resets + 1 ELSE resets
  /\ \E event \in {"none", "added", "matched", "unmatched", "updated"} :
       /\ event \in {"matched", "unmatched", "updated"} => snap.unchecked > 0
       /\ event = "updated" => config.updateSnapshot
       /\ snap' =
            CASE event = "none" -> snap
              [] event = "added" -> [snap EXCEPT !.added = @ + 1]
              [] event = "matched" ->
                   [snap EXCEPT !.matched = @ + 1, !.unchecked = @ - 1]
              [] event = "unmatched" ->
                   [snap EXCEPT !.unmatched = @ + 1, !.unchecked = @ - 1]
              [] event = "updated" ->
                   [snap EXCEPT !.updated = @ + 1, !.unchecked = @ - 1]
  /\ UNCHANGED <<pc, config, jasmine, env, call, log, ops, results>>
  /\ UNCHANGED <<eqVars, mVars, fcVars>>

\* currentSnapshot.removeUncheckedKeys()
removeUncheckedKeys(s) == [s EXCEPT !.removed = s.unchecked, !.unchecked = 0]

\* the continuation with hasUncheckedKeys read after the removal
aggregateReadLate(cfg, s, deleted) ==
  LET cleaned == IF cfg.updateSnapshot THEN removeUncheckedKeys(s) ELSE s
      hasUncheckedKeys == cleaned.unchecked > 0
  IN  [snap |-> cleaned,
       ops |-> (IF cfg.updateSnapshot
                THEN <<Op("removeUncheckedKeys", FALSE, FALSE)>> ELSE <<>>)
               \o <<Op("hasUncheckedKeys", FALSE, hasUncheckedKeys),
                    Op("save", cfg.updateSnapshot, deleted)>>,
       results |-> [made |-> TRUE,
                    hasUncheckedKeys |-> ~deleted /\ hasUncheckedKeys,
                    snapshot |-> [fileDeleted |-> deleted, added |-> s.added,
                                  matched |-> s.matched,
                                  unmatched |-> s.unmatched,
                                  updated |-> s.updated]]]

\* results => {...}: the continuation of reporter.getResults(), with the
\* snapshot state s and save answering {deleted}
aggregate(cfg, s, deleted) ==
  LET hasUncheckedKeys == s.unchecked > 0
      cleaned == IF cfg.updateSnapshot THEN removeUncheckedKeys(s) ELSE s
  IN  [snap |-> cleaned,
       ops |-> <<Op("hasUncheckedKeys", FALSE, hasUncheckedKeys)>>
               \o (IF cfg.updateSnapshot
                   THEN <<Op("removeUncheckedKeys", FALSE, FALSE)>> ELSE <<>>)
               \o <<Op("save", cfg.updateSnapshot, deleted)>>,
       results |-> [made |-> TRUE,
                    hasUncheckedKeys |-> ~deleted /\ hasUncheckedKeys,
                    snapshot |-> [fileDeleted |-> deleted, added |-> s.added,
                                  matched |-> s.matched,
                                  unmatched |-> s.unmatched,
                                  updated |-> s.updated]]]

\* the reporter's promise resolves once every case has run, and the
\* continuation runs; when save throws the returned promise is rejected
ResultsResolve ==
  /\ pc = "Executed"
  /\ cases = 0
  /\ \E saved \in {"deleted", "kept", "throws"} :
       LET done == aggregate(config, snap, saved = "deleted")
       IN  /\ snap' = done.snap
           /\ IF saved = "throws"
              THEN /\ pc' = "Rejected"
                   /\ call' = [call EXCEPT !.promise = "rejected",
                                           !.error = "collaborator"]
                   /\ ops' = SubSeq(done.ops, 1, Len(done.ops) - 1)
                   /\ results' = results
              ELSE /\ pc' = "Reported"
                   /\ call' = [call EXCEPT !.promise = "resolved"]
                   /\ ops' = done.ops
                   /\ results' = done.results
  /\ UNCHANGED <<config, jasmine, env, log, cases, resets>>
  /\ UNCHANGED <<eqVars, mVars, fcVars>>

\* the reporter's promise is rejected: the continuation never runs
ResultsReject ==
  /\ pc = "Executed"
  /\ pc' = "Rejected"
  /\ call' = [call EXCEPT !.promise = "rejected", !.error = "collaborator"]
  /\ UNCHANGED <<config, jasmine, env, log, cases, resets, snap, ops, results>>
  /\ UNCHANGED <<eqVars, mVars, fcVars>>

RunNext ==
  \/ Bootstrap
  \/ CheckInitialized
  \/ Register
  \/ LoadSpec
  \/ Execute
  \/ RunCase
  \/ ResultsResolve
  \/ ResultsReject

----------------------------------------------------------------------------
(* Properties of the run *)

OpNames == [i \in 1..Len(ops) |-> ops[i].op]

\* C9: once the results resolve, the snapshot state has been asked
\* hasUncheckedKeys, then removeUncheckedKeys exactly when update mode is
\* on, then save once; the result's hasUncheckedKeys is (not deleted) and
\* (unchecked keys existed before any removal); and the snapshot sub-record
\* holds save's deletion flag and the state's counters.  Nothing touches
\* the snapshot state before the results resolve.
C9_AggregationOrderAndFlags ==
  /\ pc = "Reported" =>
       /\ OpNames = IF config.updateSnapshot
                    THEN <<"hasUncheckedKeys", "removeUncheckedKeys", "save">>
                    ELSE <<"hasUncheckedKeys", "save">>
       /\ ops[Len(ops)].arg = config.updateSnapshot
       /\ results.made
       /\ results.snapshot.fileDeleted = ops[Len(ops)].ret
       /\ results.hasUncheckedKeys =
            (~results.snapshot.fileDeleted /\ snap.unchecked + snap.removed > 0)
       /\ results.snapshot.fileDeleted => ~results.hasUncheckedKeys
       /\ results.snapshot.added = snap.added
       /\ results.snapshot.matched = snap.matched
       /\ results.snapshot.unmatched = snap.unmatched
       /\ results.snapshot.updated = snap.updated
       /\ config.updateSnapshot => snap.unchecked = 0
       /\ ~config.updateSnapshot => snap.removed = 0
  /\ call.promise \in {"none", "pending"} => ops = <<>> /\ ~results.made

\* a run in update mode that removed unchecked keys, kept its file, and
\* reports the keys it had before the removal
C9_Witness ==
  /\ pc = "Reported"
  /\ config.updateSnapshot
  /\ snap.removed > 0
  /\ ~results.snapshot.fileDeleted
  /\ results.hasUncheckedKeys
  /\ results.snapshot.matched > 0

Reached(step) == \E i \in 1..Len(log) : log[i] = step

\* the run ended where the missing engine object or env was found
InitializationFailed ==
  pc = "Thrown" /\ call.error = "jasmine2 could not be initialized by Jest"

Aborted ==
  /\ ~Reached("requireModule(testPath)")
  /\ ~Reached("execute")
  /\ ops = <<>>
  /\ ~results.made

\* C10 (as amended): when the engine object or env is missing after the
\* bootstrap, jasmine2 throws the "could not be initialized" error, and it
\* throws it synchronously: no promise is returned, so none is rejected.
\* Every error thrown before the promise is returned leaves jasmine2 the
\* same way.  After the initialization error the spec file is not loaded,
\* execute is not invoked, the snapshot state is not saved and no result
\* is produced.
C10_InitializationErrorIsThrown ==
  /\ (~jasmine \/ ~env) => pc \in {"Uninitialized", "Ran", "Thrown"}
  /\ (~jasmine \/ ~env) /\ pc = "Thrown" /\ call.error # "collaborator" =>
       InitializationFailed
  /\ InitializationFailed =>
       /\ ~jasmine \/ ~env
       /\ call.st = "threw"
       /\ call.promise = "none"
       /\ Aborted
  /\ pc = "Thrown" =>
       /\ call.st = "threw"
       /\ call.promise = "none"
       /\ ~Reached("execute")
       /\ ops = <<>>
       /\ ~results.made

\* the engine object was there and env was not, and the check ended the run
C10_Witness ==
  /\ InitializationFailed
  /\ jasmine
  /\ ~env

\* C10 as stated: the initialization error rejects the promise jasmine2
\* returned
C10_Original ==
  InitializationFailed =>
    /\ call.promise = "rejected"
    /\ Aborted

----------------------------------------------------------------------------
(* The specifications, one for each part *)

EqInit == EqStart /\ MIdle /\ FcIdle /\ RunIdle

SpecEq == EqInit /\ [][EqNext]_vars

MInit == MStart /\ EqIdle /\ FcIdle /\ RunIdle

SpecMatchers == MInit /\ [][MNext]_vars

FcInit == FcStart /\ EqIdle /\ MIdle /\ RunIdle

SpecCapture == FcInit /\ [][FcNext]_vars

RunInit == RunStart /\ EqIdle /\ MIdle /\ FcIdle

SpecRun == RunInit /\ [][RunNext]_vars

====
